---- MODULE Spec2Model ----
(***************************************************************************)
(* The fiber reconciler's container API (ReactFiberReconciler) and the DOM *)
(* renderer built on it (ReactDOMFiber): roots, update queues, the ambient *)
(* priority and batching scopes, the interruptible work loop, the commit   *)
(* pipeline bracketed by prepareForCommit/resetAfterCommit, and the public *)
(* entry points render, unstable_renderSubtreeIntoContainer and            *)
(* unmountComponentAtNode.                                                 *)
(*                                                                         *)
(* The scheduler, the update queue and the root constructor are required   *)
(* modules whose code is not part of the two source files; they are        *)
(* modelled from the written specification (sections 3 to 5).              *)
(***************************************************************************)
EXTENDS Integers, Sequences, FiniteSets, TLC

VARIABLES
  target,               \* the container node the application renders into
  dom,                  \* DOM node -> its children, a sequence of host nodes
  reg,                  \* DOM node -> its _reactRootContainer (0: none)
  nroots,               \* number of FiberRoots allocated so far
  rootContainer,        \* root -> containerInfo
  current,              \* root -> children of root.current (committed tree)
  context,              \* root -> root.context (0: null)
  pendingContext,       \* root -> root.pendingContext (0: null)
  updateQueue,          \* root -> queue of pending updates
  wip,                  \* root -> work-loop state and alternate tree
  stack,                \* active batching / priority scopes, innermost last
  perf,                 \* the running performWork call, if any
  deferredScheduled,    \* a scheduleDeferredCallback callback is outstanding
  handler,              \* the public entry point waiting for its render
  lastReturn,           \* what the last public entry point returned
  lastCall,             \* the last public entry point called and its arguments
  ops,                  \* number of public entry point calls made
  nextInst,             \* next host instance identity
  eventsEnabled,        \* ReactDOMFiber's saved slot
  selectionInformation, \* ReactDOMFiber's saved slot
  emitterEnabled,       \* ReactBrowserEventEmitter's enabled flag
  selection,            \* the document's current selection
  warned,               \* warnAboutUnstableUse's latch
  commit,               \* history: the latest Commit Pipeline run
  served,               \* history: which runs consumed each batch's updates
  notified,             \* history: the last scheduleUpdate call
  discarded             \* history: instances created by discarded alternates

vars == <<target, dom, reg, nroots, rootContainer, current, context, pendingContext,
          updateQueue, wip, stack, perf, deferredScheduled, handler,
          lastReturn, lastCall, ops, nextInst, eventsEnabled,
          selectionInformation, emitterEnabled, selection, warned, commit,
          served, notified, discarded>>

----------------------------------------------------------------------------
(* Bounds of the model *)

MaxOps == 3
MaxRoots == 2
MaxDepth == 2

----------------------------------------------------------------------------
(* Program constants *)

ELEMENT_NODE_TYPE == 1
DOC_NODE_TYPE == 9
DOCUMENT_FRAGMENT_NODE_TYPE == 11
DOCUMENT_NODE == 9

NoWork == 0
SynchronousPriority == 1
TaskPriority == 2
LowPriority == 5

useSyncScheduling_deferred == FALSE

useSyncScheduling == TRUE

null == 0

----------------------------------------------------------------------------
(* The DOM the renderer works on *)

\* the valid container nodes: an element, the document, a document fragment
Targets == {"div", "doc", "frag"}

\* the pages a run starts from: the container the application uses and
\* whether browser events are enabled
Documents ==
  {[container |-> "div", enabled |-> TRUE],
   [container |-> "doc", enabled |-> TRUE],
   [container |-> "frag", enabled |-> FALSE]}

\* the nodes a run passes as its container: its own, or an invalid one
ArgNodes == {target, "text", "null"}

\* the nodes that exist ("html" is the document's documentElement)
DomNodes == {"div", "doc", "html", "frag", "text"}

NodeType(node) ==
  CASE node = "div" -> 1
    [] node = "html" -> 1
    [] node = "text" -> 3
    [] node = "doc" -> 9
    [] node = "frag" -> 11
    [] OTHER -> 0

documentElement(node) == "html"

Foreign == [id |-> 0, type |-> "foreign", props |-> 0]

ChildIds(children) == {children[i].id : i \in 1..Len(children)}

RECURSIVE Without(_, _)
Without(children, id) ==
  IF children = <<>> THEN <<>>
  ELSE IF Head(children).id = id THEN Without(Tail(children), id)
  ELSE <<Head(children)>> \o Without(Tail(children), id)

IndexOf(children, id) ==
  CHOOSE i \in 1..Len(children) : children[i].id = id

\* parentInstance.appendChild(child)
appendChild(children, child) == Append(Without(children, child.id), child)

\* parentInstance.insertBefore(child, beforeChild)
insertBefore(children, child, beforeId) ==
  LET rest == Without(children, child.id)
      i == IndexOf(rest, beforeId)
  IN SubSeq(rest, 1, i - 1) \o <<child>> \o SubSeq(rest, i, Len(rest))

\* parentInstance.removeChild(child)
removeChild_keep(children, id) == children

removeChild(children, id) == Without(children, id)

\* updateProperties(domElement, updatePayload, type, oldProps, newProps)
commitUpdate(children, id, newProps) ==
  IF children = <<>> THEN <<>> ELSE
  [i \in 1..Len(children) |->
     IF children[i].id = id THEN [children[i] EXCEPT !.props = newProps]
     ELSE children[i]]

isValidContainer_anyNode(node) == node # "null"

isValidContainer(node) ==
  /\ node # "null"
  /\ \/ NodeType(node) = ELEMENT_NODE_TYPE
     \/ NodeType(node) = DOC_NODE_TYPE
     \/ NodeType(node) = DOCUMENT_FRAGMENT_NODE_TYPE

----------------------------------------------------------------------------
(* Descriptions (ReactNodeList) and the trees built from them *)

A1 == [type |-> "a", props |-> 1]
B1 == [type |-> "b", props |-> 1]
B2 == [type |-> "b", props |-> 2]

\* what render is called with
Descriptions == {<<>>, <<A1, B1>>}

Parents == {"none", "comp", "bad"}

\* what unstable_renderSubtreeIntoContainer is called with
SubtreeNodes == {target, "text"}
SubtreeDescriptions == {<<B1, B2>>}

\* getContextForSubtree: emptyObject without a parent, else the parent's context
getContextForSubtree(parentComponent) ==
  IF parentComponent = "none" THEN 1 ELSE 2

Roots == 1..MaxRoots

IdleWip ==
  [phase |-> "Idle", level |-> NoWork, taken |-> {}, alt |-> <<>>,
   cbs |-> <<>>, dels |-> <<>>, pos |-> 0, effects |-> <<>>, next |-> 1,
   step |-> 0]

Fiber(type, props, stateNode, tag) ==
  [type |-> type, props |-> props, stateNode |-> stateNode, tag |-> tag]

\* the children of the alternate: reconcile the committed children against
\* the description, position by position
ReconcileChildren(cur, element) ==
  IF element = <<>> THEN <<>> ELSE
  [i \in 1..Len(element) |->
     IF i <= Len(cur) /\ cur[i].type = element[i].type
     THEN Fiber(element[i].type, element[i].props, cur[i].stateNode,
                IF cur[i].props = element[i].props THEN "none" ELSE "update")
     ELSE Fiber(element[i].type, element[i].props, null, "placement")]

\* the committed children that the description does not keep
DeletedChildren(cur, element) ==
  LET gone(i) == i > Len(element) \/ cur[i].type # element[i].type
      F[i \in 0..Len(cur)] ==
        IF i = 0 THEN <<>>
        ELSE IF gone(i) THEN Append(F[i - 1], cur[i].stateNode) ELSE F[i - 1]
  IN F[Len(cur)]

\* the effect list of a completed alternate: deletions, then each child's
\* own effect in completion order
EffectList(alt, dels) ==
  LET D == IF dels = <<>> THEN <<>>
           ELSE [i \in 1..Len(dels) |->
                   [op |-> "delete", inst |-> dels[i], idx |-> 0]]
      F[i \in 0..Len(alt)] ==
        IF i = 0 THEN <<>>
        ELSE IF alt[i].tag = "none" THEN F[i - 1]
        ELSE Append(F[i - 1],
                    [op |-> alt[i].tag, inst |-> alt[i].stateNode, idx |-> i])
  IN D \o F[Len(alt)]

\* the already placed sibling a new child is inserted before (null: append)
HostSibling(alt, idx) ==
  LET later == {j \in (idx + 1)..Len(alt) : alt[j].tag # "placement"}
  IN IF later = {} THEN null
     ELSE alt[CHOOSE j \in later : \A k \in later : j <= k].stateNode

ApplyEffect(children, alt, e) ==
  IF e.op = "delete" THEN removeChild(children, e.inst)
  ELSE IF e.op = "update"
  THEN commitUpdate(children, e.inst, alt[e.idx].props)
  ELSE LET child == [id |-> e.inst, type |-> alt[e.idx].type,
                     props |-> alt[e.idx].props]
           before == HostSibling(alt, e.idx)
       IN IF before = null \/ before \notin ChildIds(children)
          THEN appendChild(children, child)
          ELSE insertBefore(children, child, before)

----------------------------------------------------------------------------
(* Batching and priority scopes *)

Frame(kind, level, id) == [kind |-> kind, level |-> level, id |-> id]

RECURSIVE IsBatchingUpdates(_)
\* the batching-mode flag as set by the innermost batchedUpdates or
\* unbatchedUpdates scope
IsBatchingUpdates(stk) ==
  IF stk = <<>> THEN FALSE
  ELSE IF stk[Len(stk)].kind = "batched" THEN TRUE
  ELSE IF stk[Len(stk)].kind = "unbatched" THEN FALSE
  ELSE IsBatchingUpdates(SubSeq(stk, 1, Len(stk) - 1))

RECURSIVE PriorityContext(_)
\* the top of the ambient priority stack (NoWork: unset)
PriorityContext(stk) ==
  IF stk = <<>> THEN NoWork
  ELSE IF stk[Len(stk)].kind = "priority" THEN stk[Len(stk)].level
  ELSE PriorityContext(SubSeq(stk, 1, Len(stk) - 1))

getPriorityContext(stk) ==
  IF PriorityContext(stk) # NoWork THEN PriorityContext(stk)
  ELSE IF ~useSyncScheduling THEN LowPriority
  ELSE IF IsBatchingUpdates(stk) THEN TaskPriority
  ELSE SynchronousPriority

\* the outermost batchedUpdates call in progress (<<>>: none)
OutermostBatch(stk) ==
  IF stk # <<>> /\ stk[1].kind = "batched" THEN stk[1].id ELSE <<>>

NotPerforming == [active |-> FALSE, level |-> NoWork, deadline |-> FALSE, root |-> 0]

performWork(level, deadline) ==
  [active |-> TRUE, level |-> level, deadline |-> deadline, root |-> 0]

NoHandler ==
  [kind |-> "none", root |-> 0, pops |-> 0, element |-> <<>>, fresh |-> FALSE]

Idle == ~perf.active /\ handler.kind = "none"

----------------------------------------------------------------------------
(* ReactFiberReconciler *)

\* createFiberRoot(containerInfo): the next unused root
createContainer == nroots + 1

addTopLevelUpdate(queue, partialState, callback, priorityLevel, stk) ==
  Append(queue, [element |-> partialState, callback |-> callback,
                 priorityLevel |-> priorityLevel, seq |-> ops + 1,
                 ambient |-> getPriorityContext(stk),
                 batch |-> OutermostBatch(stk),
                 batching |-> IsBatchingUpdates(stk)])

\* scheduleUpdate(fiber, priorityLevel), called when the root's queue is
\* queueSeen
scheduleUpdate(r, priorityLevel, stk, queueSeen) ==
  /\ notified' = [root |-> r, priorityLevel |-> priorityLevel,
                  queued |-> \E i \in 1..Len(queueSeen) :
                                queueSeen[i].seq = ops + 1]
  /\ IF \/ priorityLevel = SynchronousPriority
        \/ priorityLevel = TaskPriority /\ ~IsBatchingUpdates(stk)
     THEN perf' = performWork(priorityLevel, FALSE)
          /\ UNCHANGED deferredScheduled
     ELSE IF priorityLevel = TaskPriority
     THEN UNCHANGED <<perf, deferredScheduled>>
     ELSE deferredScheduled' = TRUE /\ UNCHANGED perf

ContextAfterUpdate_always(old, resolved) == resolved

\* container.context after updateContainer
ContextAfterUpdate(old, resolved) ==
  IF old = null THEN resolved ELSE old

\* container.pendingContext after updateContainer
PendingContextAfterUpdate(oldContext, oldPending, resolved) ==
  IF oldContext = null THEN oldPending ELSE resolved

UpdatePriorityLevel_sync(stk) == SynchronousPriority

\* const priorityLevel = getPriorityContext()
UpdatePriorityLevel(stk) == getPriorityContext(stk)

\* callback === undefined ? null : callback
UpdateCallback(callback) ==
  IF callback = <<"undefined">> THEN <<"null">> ELSE callback

ScheduledPriority_low(priorityLevel) == LowPriority

\* the priority handed to scheduleUpdate
ScheduledPriority(priorityLevel) == priorityLevel

QueueSeenByScheduler_before(before, after) == before

\* addTopLevelUpdate runs before scheduleUpdate
QueueSeenByScheduler(before, after) == after

updateContainer(element, r, parentComponent, callback, stk) ==
  LET resolved == getContextForSubtree(parentComponent)
      priorityLevel == UpdatePriorityLevel(stk)
      queue == addTopLevelUpdate(updateQueue[r], element,
                                 UpdateCallback(callback), priorityLevel, stk)
  IN /\ context' = [context EXCEPT ![r] = ContextAfterUpdate(@, resolved)]
     /\ pendingContext' =
          [pendingContext EXCEPT
             ![r] = PendingContextAfterUpdate(context[r], @, resolved)]
     /\ updateQueue' = [updateQueue EXCEPT ![r] = queue]
     /\ scheduleUpdate(r, ScheduledPriority(priorityLevel), stk,
                       QueueSeenByScheduler(updateQueue[r], queue))

GetPublicRootInstance_alternate(r) ==
  IF wip[r].alt # <<>> THEN wip[r].alt[1].stateNode
  ELSE IF current[r] = <<>> THEN null ELSE current[r][1].stateNode

GetPublicRootInstance(r) ==
  IF current[r] = <<>> THEN null ELSE current[r][1].stateNode

\* findCurrentHostFiber from the i-th child of the root, then its stateNode
findHostInstance(r, i) ==
  IF i > Len(current[r]) THEN null ELSE current[r][i].stateNode

----------------------------------------------------------------------------
(* The work loop *)

Allocated == 1..nroots

\* the most urgent priority among a root's queued updates
PendingPriority(r) ==
  LET ps == {updateQueue[r][i].priorityLevel : i \in 1..Len(updateQueue[r])}
  IN IF ps = {} THEN NoWork ELSE CHOOSE p \in ps : \A q \in ps : p <= q

\* the roots the work loop may pick: most urgent pending work first
NextRoots(level) ==
  {r \in Allocated :
     /\ PendingPriority(r) # NoWork
     /\ PendingPriority(r) <= level
     /\ \A s \in Allocated :
          PendingPriority(s) # NoWork => PendingPriority(r) <= PendingPriority(s)}

\* an update is consumed by a pass of matching or higher priority
TakenUpdates(queue, level) ==
  SelectSeq(queue, LAMBDA u : u.priorityLevel <= level)

FreshInstances(w) ==
  {w.alt[i].stateNode : i \in {j \in 1..w.pos : w.alt[j].tag = "placement"}}

\* a more urgent pass discards a pending alternate
Preempted(w, level) ==
  w.phase = "BuildingAlternate" /\ w.level > level

Resumable(w, level) ==
  w.phase = "BuildingAlternate" /\ w.level = level

\* the alternate with every child from position pos on completed:
\* createInstance for each new node, in order
Completed(alt, pos, inst) ==
  LET new(i) == Cardinality({j \in (pos + 1)..i : alt[j].tag = "placement"})
  IN IF alt = <<>> THEN <<>>
     ELSE [i \in 1..Len(alt) |->
             IF i > pos /\ alt[i].tag = "placement"
             THEN [alt[i] EXCEPT !.stateNode = inst + new(i) - 1]
             ELSE alt[i]]

Placements(alt, pos) ==
  Cardinality({j \in (pos + 1)..Len(alt) : alt[j].tag = "placement"})

\* the top node completes: the effect list is ready for the Commit Pipeline
EffectsReady(w) ==
  [w EXCEPT !.phase = "EffectsReady", !.pos = Len(w.alt),
            !.effects = EffectList(w.alt, w.dels)]

NoCommit ==
  [prepare |-> 0, reset |-> 0, mutations |-> 0,
   outside |-> FALSE, reentered |-> FALSE, done |-> TRUE]

\* the batches whose updates the run starting on root r consumes: for each,
\* the run's ordinal among the runs serving that batch, and whether the
\* batchedUpdates call is still in progress
Serves(r, taken) ==
  LET q == updateQueue[r]
      mine == {i \in 1..Len(q) : q[i].seq \in taken /\ q[i].batch # <<>>}
      runs(b) == {s.run : s \in {t \in served : t.batch = b /\ t.root = r}}
  IN {[batch |-> q[i].batch, root |-> r, seq |-> q[i].seq,
       ambient |-> q[i].ambient, batching |-> q[i].batching,
       run |-> Cardinality(runs(q[i].batch)) + 1,
       inside |-> OutermostBatch(stack) = q[i].batch] : i \in mine}

\* a Commit Pipeline run starts on root r
StartCommit(r, taken) ==
  /\ commit' = [NoCommit EXCEPT !.done = FALSE, !.reentered = ~commit.done]
  /\ served' = served \cup Serves(r, taken)

\* the work loop picks a root and starts (or resumes) its pass; a pass
\* without a deadline never yields and runs to EffectsReady at once
BeginWork(r, keep) ==
  /\ perf.active /\ perf.root = 0
  /\ r \in NextRoots(perf.level)
  /\ LET level == PendingPriority(r)
         taken == TakenUpdates(updateQueue[r], level)
         element == taken[Len(taken)].element
         fresh == [phase |-> "BuildingAlternate", level |-> level,
                   taken |-> {taken[i].seq : i \in 1..Len(taken)},
                   alt |-> ReconcileChildren(current[r], element),
                   cbs |-> [i \in 1..Len(taken) |-> taken[i].callback],
                   dels |-> DeletedChildren(current[r], element),
                   pos |-> 0, effects |-> <<>>, next |-> 1, step |-> 0]
         dropped == {s \in Allocated :
                       Preempted(wip[s], level) /\ (s = r \/ ~keep)}
         w == IF Resumable(wip[r], level) THEN wip[r] ELSE fresh
         done == [w EXCEPT !.alt = Completed(w.alt, w.pos, nextInst)]
     IN /\ wip' = [s \in Roots |->
                     IF s = r
                     THEN IF perf.deadline THEN w ELSE EffectsReady(done)
                     ELSE IF s \in dropped THEN IdleWip ELSE wip[s]]
        /\ discarded' =
             discarded \cup UNION {FreshInstances(wip[s]) : s \in dropped}
        /\ IF perf.deadline
           THEN UNCHANGED <<nextInst, commit, served>>
           ELSE /\ nextInst' = nextInst + Placements(w.alt, w.pos)
                /\ StartCommit(r, w.taken)
  /\ perf' = [perf EXCEPT !.root = r]
  /\ UNCHANGED <<target, dom, reg, nroots, rootContainer, current, context,
                 pendingContext, updateQueue, stack, deferredScheduled,
                 handler, lastReturn, lastCall, ops, eventsEnabled,
                 selectionInformation, emitterEnabled, selection, warned,
                 notified>>

\* the complete step of one child: createInstance for a new node
CompleteUnit(r) ==
  /\ perf.active /\ perf.root = r
  /\ wip[r].phase = "BuildingAlternate"
  /\ wip[r].pos < Len(wip[r].alt)
  /\ LET i == wip[r].pos + 1
         create == wip[r].alt[i].tag = "placement"
     IN /\ wip' = [wip EXCEPT ![r].pos = i,
                              ![r].alt[i].stateNode =
                                 IF create THEN nextInst ELSE @]
        /\ nextInst' = IF create THEN nextInst + 1 ELSE nextInst
  /\ UNCHANGED <<target, dom, reg, nroots, rootContainer, current, context,
                 pendingContext, updateQueue, stack, perf, deferredScheduled,
                 handler, lastReturn, lastCall, ops, eventsEnabled,
                 selectionInformation, emitterEnabled, selection, warned,
                 commit, served, notified, discarded>>

\* the complete step of the top node: the effect list is ready
CompleteRoot(r) ==
  /\ perf.active /\ perf.root = r
  /\ wip[r].phase = "BuildingAlternate"
  /\ wip[r].pos = Len(wip[r].alt)
  /\ wip' = [wip EXCEPT ![r] = EffectsReady(@)]
  /\ StartCommit(r, wip[r].taken)
  /\ UNCHANGED <<target, dom, reg, nroots, rootContainer, current, context,
                 pendingContext, updateQueue, stack, perf, deferredScheduled,
                 handler, lastReturn, lastCall, ops, nextInst, eventsEnabled,
                 selectionInformation, emitterEnabled, selection, warned,
                 notified, discarded>>

\* a deferred pass gives the thread back between two node visits
Yield(r) ==
  /\ perf.active /\ perf.root = r /\ perf.deadline
  /\ wip[r].phase = "BuildingAlternate"
  /\ wip[r].level > TaskPriority
  /\ perf' = NotPerforming
  /\ deferredScheduled' = TRUE
  /\ UNCHANGED <<target, dom, reg, nroots, rootContainer, current, context,
                 pendingContext, updateQueue, wip, stack, handler, lastReturn,
                 lastCall, ops, nextInst, eventsEnabled, selectionInformation,
                 emitterEnabled, selection, warned, commit, served, notified,
                 discarded>>

\* performWork finds nothing to do at its priority
FinishPerform ==
  /\ perf.active /\ perf.root = 0
  /\ NextRoots(perf.level) = {}
  /\ perf' = NotPerforming
  /\ UNCHANGED <<target, dom, reg, nroots, rootContainer, current, context,
                 pendingContext, updateQueue, wip, stack, deferredScheduled,
                 handler, lastReturn, lastCall, ops, nextInst, eventsEnabled,
                 selectionInformation, emitterEnabled, selection, warned,
                 commit, served, notified, discarded>>

\* the host calls the callback given to scheduleDeferredCallback
DeferredCallback ==
  /\ deferredScheduled /\ Idle /\ stack = <<>>
  /\ deferredScheduled' = FALSE
  /\ perf' = performWork(LowPriority, TRUE)
  /\ UNCHANGED <<target, dom, reg, nroots, rootContainer, current, context,
                 pendingContext, updateQueue, wip, stack, handler, lastReturn,
                 lastCall, ops, nextInst, eventsEnabled, selectionInformation,
                 emitterEnabled, selection, warned, commit, served, notified,
                 discarded>>

----------------------------------------------------------------------------
(* The commit pipeline *)

CommitSteps_unbracketed == <<"effects", "prepare", "reset", "callbacks">>

\* the ordered steps of one Commit Pipeline run
CommitSteps == <<"prepare", "effects", "reset", "callbacks">>

InPipeline(r) ==
  /\ perf.active /\ perf.root = r
  /\ wip[r].phase \in {"EffectsReady", "Committing"}

StepOf(r) == CommitSteps[wip[r].step + 1]

LastStep(r) == wip[r].step + 1 = Len(CommitSteps)

\* the work-loop state after one more pipeline step; after the last one the
\* loop looks for more work and performWork returns when there is none
Advance(r) ==
  /\ wip' = [wip EXCEPT ![r] =
               IF LastStep(r) THEN IdleWip
               ELSE [@ EXCEPT !.phase = "Committing", !.step = @ + 1]]
  /\ perf' = IF ~LastStep(r) THEN perf
             ELSE IF NextRoots(perf.level) = {} THEN NotPerforming
             ELSE [perf EXCEPT !.root = 0]

\* the run's record, closed by its last step
Logged(rec) == [rec EXCEPT !.done = LastStep(perf.root)]

prepareForCommit ==
  /\ eventsEnabled' = IF emitterEnabled THEN "true" ELSE "false"
  /\ selectionInformation' = <<"info", selection>>
  /\ emitterEnabled' = FALSE

\* resetAfterCommit that switches events on instead of restoring the saved
\* flag
resetAfterCommit_enables ==
  /\ selection' =
       IF selectionInformation # <<"null">>
          /\ \E n \in DomNodes : selectionInformation[2] \in ChildIds(dom[n])
       THEN selectionInformation[2] ELSE selection
  /\ selectionInformation' = <<"null">>
  /\ emitterEnabled' = TRUE
  /\ eventsEnabled' = "null"

resetAfterCommit ==
  /\ selection' =
       IF selectionInformation # <<"null">>
          /\ \E n \in DomNodes : selectionInformation[2] \in ChildIds(dom[n])
       THEN selectionInformation[2] ELSE selection
  /\ selectionInformation' = <<"null">>
  /\ emitterEnabled' = (eventsEnabled = "true")
  /\ eventsEnabled' = "null"

CommitPrepare(r) ==
  /\ InPipeline(r) /\ StepOf(r) = "prepare"
  /\ prepareForCommit
  /\ commit' = Logged([commit EXCEPT
                          !.prepare = @ + 1,
                          !.reentered = @ \/ commit.prepare > commit.reset])
  /\ Advance(r)
  /\ UNCHANGED <<served, target, dom, reg, nroots, rootContainer, current, context,
                 pendingContext, updateQueue, stack, deferredScheduled,
                 handler, lastReturn, lastCall, ops, nextInst, selection,
                 warned, notified, discarded>>

\* one effect of the effect list applied through the adapter
CommitMutate(r) ==
  /\ InPipeline(r) /\ StepOf(r) = "effects"
  /\ wip[r].next <= Len(wip[r].effects)
  /\ LET e == wip[r].effects[wip[r].next]
         c == rootContainer[r]
     IN /\ dom' = [dom EXCEPT ![c] = ApplyEffect(@, wip[r].alt, e)]
        /\ selection' = IF e.op = "delete" /\ e.inst = selection
                        THEN null ELSE selection
  /\ wip' = [wip EXCEPT ![r].next = @ + 1, ![r].phase = "Committing"]
  /\ commit' = [commit EXCEPT !.mutations = @ + 1,
                              !.outside =
                                 @ \/ commit.prepare # commit.reset + 1]
  /\ UNCHANGED <<served, target, reg, nroots, rootContainer, current, context, pendingContext,
                 updateQueue, stack, perf, deferredScheduled, handler,
                 lastReturn, lastCall, ops, nextInst, eventsEnabled,
                 selectionInformation, emitterEnabled, warned, notified,
                 discarded>>

\* the pending context becomes active when the update that set it (the
\* last one enqueued) commits
AppliesPendingContext(queue, taken) ==
  queue # <<>> /\ queue[Len(queue)].seq \in taken

\* every effect is applied: the alternate becomes the current tree
CommitSwap(r) ==
  /\ InPipeline(r) /\ StepOf(r) = "effects"
  /\ wip[r].next > Len(wip[r].effects)
  /\ current' = [current EXCEPT ![r] =
                   IF wip[r].alt = <<>> THEN <<>>
                   ELSE [i \in 1..Len(wip[r].alt) |->
                           [wip[r].alt[i] EXCEPT !.tag = "none"]]]
  /\ LET apply == /\ pendingContext[r] # null
                  /\ AppliesPendingContext(updateQueue[r], wip[r].taken)
     IN /\ context' = IF apply THEN [context EXCEPT ![r] = pendingContext[r]]
                      ELSE context
        /\ pendingContext' = IF apply THEN [pendingContext EXCEPT ![r] = null]
                             ELSE pendingContext
  /\ updateQueue' = [updateQueue EXCEPT ![r] =
                       SelectSeq(@, LAMBDA u : u.seq \notin wip[r].taken)]
  /\ commit' = Logged(commit)
  /\ Advance(r)
  /\ UNCHANGED <<served, target, dom, reg, nroots, rootContainer, stack,
                 deferredScheduled, handler, lastReturn, lastCall, ops,
                 nextInst, eventsEnabled, selectionInformation,
                 emitterEnabled, selection, warned, notified, discarded>>

CommitReset(r) ==
  /\ InPipeline(r) /\ StepOf(r) = "reset"
  /\ resetAfterCommit
  /\ commit' = Logged([commit EXCEPT !.reset = @ + 1])
  /\ Advance(r)
  /\ UNCHANGED <<served, target, dom, reg, nroots, rootContainer, current, context,
                 pendingContext, updateQueue, stack, deferredScheduled,
                 handler, lastReturn, lastCall, ops, nextInst, warned, notified, discarded>>

\* the completion callbacks of the committed updates; the one
\* unmountComponentAtNode passes clears the container's registration
CommitCallbacks(r) ==
  /\ InPipeline(r) /\ StepOf(r) = "callbacks"
  /\ reg' = [n \in DomNodes |->
               IF \E i \in 1..Len(wip[r].cbs) : wip[r].cbs[i] = <<"unreg", n>>
               THEN 0 ELSE reg[n]]
  /\ commit' = Logged(commit)
  /\ Advance(r)
  /\ UNCHANGED <<served, target, dom, nroots, rootContainer, current, context, pendingContext,
                 updateQueue, stack, deferredScheduled, handler, lastReturn,
                 lastCall, ops, nextInst, eventsEnabled, selectionInformation,
                 emitterEnabled, selection, warned, notified, discarded>>

----------------------------------------------------------------------------
(* batchedUpdates(fn): entering fn and returning from it.  The other scopes
   (syncUpdates, deferredUpdates, unbatchedUpdates) wrap a single entry point call: see Within *)

batchedUpdates ==
  /\ Idle /\ Len(stack) < MaxDepth /\ ops < MaxOps
  /\ stack' = Append(stack, Frame("batched", NoWork,
                                  IF stack = <<>> THEN <<ops>>
                                  ELSE OutermostBatch(stack)))
  /\ UNCHANGED <<target, dom, reg, nroots, rootContainer, current, context,
                 pendingContext, updateQueue, wip, perf, deferredScheduled,
                 handler, lastReturn, lastCall, ops, nextInst, eventsEnabled,
                 selectionInformation, emitterEnabled, selection, warned,
                 commit, served, notified, discarded>>

\* fn returns: the previous batching flag is restored; the outermost
\* batchedUpdates then performs the Task work it held back
batchedUpdatesReturn ==
  /\ Idle /\ stack # <<>>
  /\ LET rest == SubSeq(stack, 1, Len(stack) - 1)
     IN /\ stack' = rest
        /\ perf' = IF ~IsBatchingUpdates(rest)
                   THEN performWork(TaskPriority, FALSE) ELSE perf
  /\ UNCHANGED <<target, dom, reg, nroots, rootContainer, current, context,
                 pendingContext, updateQueue, wip, deferredScheduled,
                 handler, lastReturn, lastCall, ops, nextInst, eventsEnabled,
                 selectionInformation, emitterEnabled, selection, warned,
                 commit, served, notified, discarded>>

Scopes == {"none", "syncUpdates", "deferredUpdates", "unbatchedUpdates"}

\* the scopes in force for a call made as the body of the given scope
Within(scope) ==
  CASE scope = "syncUpdates" ->
         Append(stack, Frame("priority", SynchronousPriority, <<>>))
    [] scope = "deferredUpdates" ->
         Append(stack, Frame("priority", LowPriority, <<>>))
    [] scope = "unbatchedUpdates" ->
         Append(stack, Frame("unbatched", NoWork, <<>>))
    [] OTHER -> stack

Entered(scope) == IF scope = "none" THEN 0 ELSE 1

----------------------------------------------------------------------------
(* ReactDOMFiber: the public entry points *)

Threw == [k |-> "threw", v |-> null]
Pending == [k |-> "pending", v |-> null]

\* an entry point that fails its precondition changes nothing
Throw ==
  /\ lastReturn' = Threw
  /\ UNCHANGED <<dom, reg, nroots, rootContainer, context, pendingContext,
                 updateQueue, stack, perf, deferredScheduled, handler, notified>>

\* stk: the scopes in force; pops: how many of them the caller entered itself
renderSubtreeIntoContainer(parentComponent, children, containerNode, callback, stk, pops) ==
  IF ~isValidContainer(containerNode) THEN Throw
  ELSE
    LET container == IF NodeType(containerNode) = DOCUMENT_NODE
                     THEN documentElement(containerNode) ELSE containerNode
        root == reg[container]
    IN IF root = 0
       THEN /\ nroots < MaxRoots
            /\ dom' = [dom EXCEPT ![container] = <<>>]
            /\ nroots' = createContainer
            /\ rootContainer' =
                 [rootContainer EXCEPT ![createContainer] = container]
            /\ reg' = [reg EXCEPT ![container] = createContainer]
            /\ stack' = Append(stk, Frame("unbatched", NoWork, <<>>))
            /\ updateContainer(children, createContainer, parentComponent,
                               callback, stack')
            /\ handler' = [kind |-> "render", root |-> createContainer,
                           pops |-> pops + 1, element |-> children,
                           fresh |-> TRUE]
            /\ lastReturn' = Pending
       ELSE /\ stack' = stk
            /\ updateContainer(children, root, parentComponent, callback, stk)
            /\ handler' = [kind |-> "render", root |-> root, pops |-> pops,
                           element |-> children, fresh |-> FALSE]
            /\ lastReturn' = Pending
            /\ UNCHANGED <<dom, reg, nroots, rootContainer>>

render(element, container, callback, scope) ==
  /\ Idle /\ ops < MaxOps
  /\ ops' = ops + 1
  /\ lastCall' = [api |-> "render", node |-> container]
  /\ IF ~isValidContainer(container) THEN Throw
     ELSE renderSubtreeIntoContainer("none", element, container, callback,
                                     Within(scope), Entered(scope))
  /\ UNCHANGED <<target, current, wip, nextInst, eventsEnabled,
                 selectionInformation, emitterEnabled, selection, warned,
                 commit, served, discarded>>

unstable_renderSubtreeIntoContainer(parentComponent, element, containerNode, callback, scope) ==
  /\ Idle /\ ops < MaxOps
  /\ ops' = ops + 1
  /\ lastCall' = [api |-> "renderSubtree", node |-> containerNode]
  /\ IF parentComponent # "comp" THEN Throw
     ELSE renderSubtreeIntoContainer(parentComponent, element, containerNode,
                                     callback, Within(scope), Entered(scope))
  /\ UNCHANGED <<target, current, wip, nextInst, eventsEnabled,
                 selectionInformation, emitterEnabled, selection, warned,
                 commit, served, discarded>>

HasRoot_always(container) == TRUE

\* if (container._reactRootContainer)
HasRoot(container) == reg[container] # 0

unmountComponentAtNode(container, scope) ==
  /\ Idle /\ ops < MaxOps
  /\ ops' = ops + 1
  /\ lastCall' = [api |-> "unmount", node |-> container]
  /\ IF ~isValidContainer(container) THEN Throw /\ UNCHANGED warned
     ELSE /\ warned' = TRUE
          /\ IF HasRoot(container)
             THEN renderSubtreeIntoContainer(
                    "none", <<>>, container, <<"unreg", container>>,
                    Append(Within(scope), Frame("unbatched", NoWork, <<>>)),
                    Entered(scope) + 1)
             ELSE /\ lastReturn' = [k |-> "undefined", v |-> null]
                  /\ UNCHANGED <<dom, reg, nroots, rootContainer, context,
                                 pendingContext, updateQueue, stack, perf,
                                 deferredScheduled, handler, notified>>
  /\ UNCHANGED <<target, current, wip, nextInst, eventsEnabled,
                 selectionInformation, emitterEnabled, selection, commit, served,
                 discarded>>

\* the entry point returns DOMRenderer.getPublicRootInstance(root), leaving
\* the unbatchedUpdates scopes it entered
Return ==
  /\ handler.kind # "none" /\ ~perf.active
  /\ lastReturn' = [k |-> "value", v |-> GetPublicRootInstance(handler.root)]
  /\ stack' = SubSeq(stack, 1, Len(stack) - handler.pops)
  /\ handler' = NoHandler
  /\ UNCHANGED <<target, dom, reg, nroots, rootContainer, current, context,
                 pendingContext, updateQueue, wip, perf, deferredScheduled,
                 lastCall, ops, nextInst, eventsEnabled, selectionInformation,
                 emitterEnabled, selection, warned, commit, served, notified,
                 discarded>>

----------------------------------------------------------------------------
(* The specification *)

Init ==
  /\ \E d \in Documents : target = d.container /\ emitterEnabled = d.enabled
  /\ dom = [n \in DomNodes |-> IF n \in {"div", "html"} THEN <<Foreign>>
                               ELSE <<>>]
  /\ reg = [n \in DomNodes |-> 0]
  /\ nroots = 0
  /\ rootContainer = [r \in Roots |-> "null"]
  /\ current = [r \in Roots |-> <<>>]
  /\ context = [r \in Roots |-> null]
  /\ pendingContext = [r \in Roots |-> null]
  /\ updateQueue = [r \in Roots |-> <<>>]
  /\ wip = [r \in Roots |-> IdleWip]
  /\ stack = <<>>
  /\ perf = NotPerforming
  /\ deferredScheduled = FALSE
  /\ handler = NoHandler
  /\ lastReturn = [k |-> "undefined", v |-> null]
  /\ lastCall = [api |-> "none", node |-> "null"]
  /\ ops = 0
  /\ nextInst = 1
  /\ eventsEnabled = "null"
  /\ selectionInformation = <<"null">>
  /\ selection = null
  /\ warned = FALSE
  /\ commit = NoCommit
  /\ served = {}
  /\ notified = [root |-> 0, priorityLevel |-> NoWork, queued |-> FALSE]
  /\ discarded = {}

Next ==
  \/ \E e \in Descriptions, n \in ArgNodes, s \in Scopes :
        render(e, n, <<"undefined">>, s)
  \/ \E p \in Parents, e \in SubtreeDescriptions, n \in SubtreeNodes,
        s \in Scopes : unstable_renderSubtreeIntoContainer(p, e, n, <<"user">>, s)
  \/ \E n \in ArgNodes, s \in Scopes : unmountComponentAtNode(n, s)
  \/ Return
  \/ batchedUpdates
  \/ batchedUpdatesReturn
  \/ DeferredCallback
  \/ \E r \in Roots, keep \in BOOLEAN : BeginWork(r, keep)
  \/ \E r \in Roots : CompleteUnit(r)
  \/ \E r \in Roots : CompleteRoot(r)
  \/ \E r \in Roots : Yield(r)
  \/ \E r \in Roots : CommitPrepare(r)
  \/ \E r \in Roots : CommitMutate(r)
  \/ \E r \in Roots : CommitSwap(r)
  \/ \E r \in Roots : CommitReset(r)
  \/ \E r \in Roots : CommitCallbacks(r)
  \/ FinishPerform

Spec == Init /\ [][Next]_vars

----------------------------------------------------------------------------
(* Properties *)

\* an updateContainer call on root r is the only step that appends to its queue
Updated(r) == Len(updateQueue'[r]) = Len(updateQueue[r]) + 1

\* the update an updateContainer call on root r has just appended
Enqueued(r) == updateQueue'[r][Len(updateQueue'[r])]

OutsidePipeline ==
  \A r \in Roots : wip[r].phase \notin {"EffectsReady", "Committing"}

Registered(r) == r \in Allocated /\ reg[rootContainer[r]] = r

InstancesOf(fibers) == {fibers[i].stateNode : i \in 1..Len(fibers)}

\* the updates of one batchedUpdates call on one root that the claim C1 is
\* about: those made under a non-Synchronous ambient priority
SameBatch(s, t) ==
  /\ s.batch = t.batch /\ s.root = t.root
  /\ s.ambient # SynchronousPriority /\ t.ambient # SynchronousPriority

ResolvedContext ==
  IF lastCall'.api = "renderSubtree" THEN getContextForSubtree("comp")
  ELSE getContextForSubtree("none")

\* C2: the first updateContainer call on a root (context unset) sets
\* root.context to the resolved context and leaves root.pendingContext
\* untouched; every later call leaves root.context unchanged and sets
\* root.pendingContext to the resolved context; root.context otherwise
\* changes only in the commit of the update that set the pending context.
C2_ContextFrame ==
  [][\A r \in Roots :
       /\ Updated(r) /\ context[r] = null
            => /\ context'[r] = ResolvedContext
               /\ pendingContext'[r] = pendingContext[r]
       /\ Updated(r) /\ context[r] # null
            => /\ context'[r] = context[r]
               /\ pendingContext'[r] = ResolvedContext
       /\ ~Updated(r) /\ context'[r] # context[r]
            => /\ InPipeline(r)
               /\ context'[r] = pendingContext[r]
               /\ updateQueue[r][Len(updateQueue[r])].seq \in wip[r].taken
               /\ pendingContext'[r] = null]_vars

\* a second call resolved a different context: it is pending, the first
\* call's context is still the active one
C2_Witness ==
  \E r \in Roots :
    /\ context[r] = getContextForSubtree("none")
    /\ pendingContext[r] = getContextForSubtree("comp")
    /\ Len(updateQueue[r]) = 1 /\ Idle

\* the work loop starts a pass on root r that preempts r's pending less
\* urgent alternate
Preempts(r) ==
  /\ perf.active /\ perf.root = 0 /\ perf'.root = r
  /\ wip[r].phase = "BuildingAlternate"
  /\ PendingPriority(r) = SynchronousPriority
  /\ wip[r].level > TaskPriority

\* C3: when a Synchronous update is enqueued for a root with a pending
\* deferred alternate not yet at EffectsReady, the scheduler is told at once
\* and performs it before the entry point returns; the pass it starts
\* discards the deferred alternate, takes none of the deferred updates,
\* builds on the committed current tree and reaches its commit while the
\* deferred updates are still queued; no instance of a discarded alternate
\* is ever attached to the host tree.
C3_PriorityPreemption ==
  [][/\ \A r \in Roots :
          Preempts(r) =>
            /\ wip'[r].phase = "EffectsReady"
            /\ wip'[r].level = SynchronousPriority
            /\ wip'[r].taken \cap wip[r].taken = {}
            /\ \A i \in 1..Len(wip'[r].alt) :
                 wip'[r].alt[i].tag # "placement"
                   => wip'[r].alt[i].stateNode \in InstancesOf(current[r])
            /\ FreshInstances(wip[r]) \subseteq discarded'
     /\ \A r \in Roots :
          Updated(r) /\ Enqueued(r).priorityLevel = SynchronousPriority
            => perf'.active /\ perf'.level = SynchronousPriority
     /\ Idle' => \A r \in Roots : PendingPriority(r)' # SynchronousPriority
     /\ \A r \in Roots :
          Len(updateQueue'[r]) < Len(updateQueue[r]) =>
            \A i \in 1..Len(updateQueue[r]) :
              updateQueue[r][i].priorityLevel > wip[r].level
                => \E j \in 1..Len(updateQueue'[r]) :
                      updateQueue'[r][j] = updateQueue[r][i]
     /\ \A n \in DomNodes : ChildIds(dom'[n]) \cap discarded' = {}]_vars

\* a Synchronous update has preempted and committed ahead of a deferred
\* update that is still queued; the discarded alternate had created instances
C3_Witness ==
  /\ discarded # {} /\ Idle /\ commit.done /\ commit.prepare = 1
  /\ \E r \in Roots :
       /\ PendingPriority(r) = LowPriority /\ wip[r].phase = "Idle"
       /\ current[r] # <<>>

C5_CommitBracket ==
  /\ commit.reset <= commit.prepare /\ commit.prepare <= 1
  /\ ~commit.outside /\ ~commit.reentered
  /\ commit.done => commit.prepare = commit.reset
  /\ commit.done /\ commit # NoCommit => commit.prepare = 1
  /\ ~commit.done <=> \E r \in Roots : InPipeline(r)
  /\ commit.prepare > commit.reset <=> eventsEnabled # "null"

\* a run with an empty effect list has completed with one call of each
C5_Witness ==
  /\ commit.done /\ commit.prepare = 1 /\ commit.reset = 1
  /\ commit.mutations = 0 /\ Idle

\* a Commit Pipeline run for an empty description is under way on root r
CommitsEmpty(r) ==
  wip[r].phase \in {"EffectsReady", "Committing"} /\ wip[r].alt = <<>>

C7_UnmountWithoutRoot ==
  [][/\ ops' = ops + 1 /\ lastCall'.api = "unmount"
     /\ lastCall'.node \in Targets /\ reg[lastCall'.node] = 0
     => /\ lastReturn'.k = "undefined"
        /\ UNCHANGED <<dom, reg, nroots, rootContainer, current, context,
                       pendingContext, updateQueue, wip, stack, perf,
                       deferredScheduled, handler, nextInst, eventsEnabled,
                       selectionInformation, emitterEnabled, selection,
                       commit, served, notified, discarded>>]_vars

\* the container was never rendered into and has been unmounted
C7_Witness ==
  /\ lastCall.api = "unmount" /\ lastCall.node \in Targets
  /\ lastReturn.k = "undefined" /\ warned
  /\ nroots = 0 /\ ops = 2 /\ commit = NoCommit

ValidNodeTypes ==
  {ELEMENT_NODE_TYPE, DOC_NODE_TYPE, DOCUMENT_FRAGMENT_NODE_TYPE}

\* C8: a public entry point called with a container that is not an element,
\* document or document-fragment node throws, and nothing else happens: no
\* root is allocated, no update is enqueued or scheduled, no child of any
\* node is removed and no registration changes.
C8_InvalidContainerThrows ==
  [][ops' = ops + 1 /\ NodeType(lastCall'.node) \notin ValidNodeTypes
     => /\ lastReturn' = Threw
        /\ UNCHANGED <<dom, reg, nroots, rootContainer, current, context,
                       pendingContext, updateQueue, wip, stack, perf,
                       deferredScheduled, handler, nextInst, commit, served,
                       notified, discarded>>]_vars

\* an entry point was called with a text node and threw; the page is as it
\* was
C8_Witness ==
  /\ lastReturn = Threw /\ lastCall.node = "text"
  /\ nroots = 0 /\ dom["div"] = <<Foreign>> /\ ops = 1

\* the callback the last entry point call passes to updateContainer, as it
\* must be stored in the update
StoredCallback ==
  CASE lastCall'.api = "render" -> <<"null">>
    [] lastCall'.api = "renderSubtree" -> <<"user">>
    [] OTHER -> <<"unreg", lastCall'.node>>

\* C9: an updateContainer call appends exactly one update to the root's
\* queue, carrying the element and the callback (null when omitted) and
\* tagged with the ambient priority; it hands that same priority and root to
\* scheduleUpdate, and the update is in the queue when the scheduler is
\* notified; the scheduler is notified by nothing else.
C9_EnqueueThenSchedule ==
  [][/\ \A r \in Roots : Updated(r) =>
          LET u == Enqueued(r)
          IN /\ SubSeq(updateQueue'[r], 1, Len(updateQueue[r])) = updateQueue[r]
             /\ \A s \in Roots \ {r} : updateQueue'[s] = updateQueue[s]
             /\ u.priorityLevel = getPriorityContext(stack')
             /\ u.element = handler'.element
             /\ u.callback = StoredCallback
             /\ handler'.root = r
             /\ notified' = [root |-> r, priorityLevel |-> u.priorityLevel,
                             queued |-> TRUE]
     /\ notified' # notified => \E r \in Roots : Updated(r)]_vars

\* a render without a callback made inside deferredUpdates has queued its
\* update at Low priority with a null callback and notified the scheduler
C9_Witness ==
  \E r \in Roots :
    /\ Len(updateQueue[r]) = 2
    /\ updateQueue[r][2].callback = <<"null">>
    /\ updateQueue[r][2].priorityLevel = LowPriority
    /\ updateQueue[r][2].seq = ops
    /\ notified = [root |-> r, priorityLevel |-> LowPriority, queued |-> TRUE]

\* an entry point is rendering a non-empty description into a container
\* that had no registered root
FirstRender ==
  handler.kind = "render" /\ handler.fresh /\ handler.element # <<>>

\* the first render's effects, up to the moment the entry point returns
FirstRenderCommitted ==
  LET r == handler.root
      c == rootContainer[r]
  IN /\ r = nroots /\ reg[c] = r
     /\ \A i \in 1..Len(dom[c]) : dom[c][i] # Foreign
     /\ stack # <<>> /\ stack[Len(stack)].kind = "unbatched"
     /\ ~perf.active
          => /\ GetPublicRootInstance(r) # null
             /\ dom[c] # <<>> /\ GetPublicRootInstance(r) = dom[c][1].id
             /\ Len(current[r]) = Len(handler.element)

\* C10 as stated: rendering into a container with no registered root clears
\* its children, allocates and registers one Root, makes the first
\* updateContainer call inside unbatchedUpdates, and the tree is committed
\* when render returns, which returns the top node's instance, not null.
C10_FirstRenderCommitted_AsStated ==
  FirstRender => FirstRenderCommitted

\* C10, amended: the same, provided the call is not made under a deferred
\* ambient priority (inside deferredUpdates) and the description is not
\* empty; inside an outer batchedUpdates the tree is still committed before
\* render returns.
C10_FirstRenderCommitted ==
  FirstRender /\ PriorityContext(stack) <= TaskPriority => FirstRenderCommitted

\* a first render made inside batchedUpdates is about to return the
\* instance it committed
C10_Witness ==
  /\ FirstRender /\ ~perf.active /\ OutermostBatch(stack) # <<>>
  /\ PriorityContext(stack) = NoWork
  /\ GetPublicRootInstance(handler.root) # null /\ commit.done
  /\ commit.mutations = 2

\* the node render registers the Root on: a document's documentElement,
\* any other container itself
RenderContainer(c) ==
  IF NodeType(c) = DOCUMENT_NODE THEN documentElement(c) ELSE c

\* a render in progress works on the Root registered for its container; a
\* Root it allocated is the newest one, a Root it reuses was registered
RenderUsesRegisteredRoot ==
  handler.kind = "render" /\ lastCall.api \in {"render", "renderSubtree"}
    => /\ reg[RenderContainer(lastCall.node)] = handler.root
       /\ rootContainer[handler.root] = RenderContainer(lastCall.node)
       /\ handler.fresh => handler.root = nroots

\* unmountComponentAtNode(c) that did nothing had no Root to find: none is
\* registered for c as render registers it
UnmountFindsRoot ==
  /\ lastCall.api = "unmount" /\ isValidContainer(lastCall.node)
     /\ lastReturn.k = "undefined"
       => reg[RenderContainer(lastCall.node)] = 0
  /\ lastCall.api = "unmount" /\ handler.kind = "render"
       => /\ handler.element = <<>> /\ ~handler.fresh
          /\ rootContainer[handler.root] = RenderContainer(lastCall.node)

\* when the unmount's commit has completed, the registration is cleared, so
\* the next render into the container finds none and allocates
UnmountClearsRegistration ==
  (/\ lastCall.api = "unmount" /\ handler.kind = "render" /\ ~perf.active
   /\ updateQueue[handler.root] = <<>>)
    => /\ reg[RenderContainer(lastCall.node)] = 0
       /\ current[handler.root] = <<>>

\* C11 as stated: for every valid container c (element, document, document
\* fragment) render allocates a Root only when none is registered for c and
\* reuses the registered one otherwise; after a render into c,
\* unmountComponentAtNode(c) finds that Root, reconciles it against the
\* empty description and clears the registration when the unmount commit
\* completes, so the next render into c allocates a fresh Root.
C11_RegistrationLifecycle_AsStated ==
  /\ RenderUsesRegisteredRoot
  /\ UnmountFindsRoot
  /\ UnmountClearsRegistration

\* the event-enabled flag the page started with; outside a commit bracket
\* nothing but the bracket writes the flag
InitiallyEnabled == \E d \in Documents : d.container = target /\ d.enabled

\* prepareForCommit has run and the matching resetAfterCommit has not
BracketOpen == commit.prepare > commit.reset

\* ReactBrowserEventEmitter.isEnabled() as the slot stores it
SavedFlag(b) == IF b THEN "true" ELSE "false"

\* C12: between prepareForCommit and resetAfterCommit browser events are
\* disabled and the slots hold the flag and the selection saved by prepare;
\* after resetAfterCommit (and before the first prepareForCommit) the flag
\* equals its value before the matching prepareForCommit, which is the
\* value it had at the start since every earlier bracket restored it, and
\* both saved slots are null whenever no bracket is open, after any number
\* of commits.
C12_BracketPreservesEvents ==
  /\ BracketOpen
       => /\ ~emitterEnabled
          /\ eventsEnabled = SavedFlag(InitiallyEnabled)
          /\ selectionInformation # <<"null">>
  /\ ~BracketOpen
       => /\ emitterEnabled = InitiallyEnabled
          /\ eventsEnabled = "null"
          /\ selectionInformation = <<"null">>

\* the commit of a later call has closed its bracket with mutations inside
\* it, and the flag is back to enabled with both slots null
C12_Witness ==
  /\ commit.done /\ commit.prepare = 1 /\ commit.reset = 1
  /\ commit.mutations > 0 /\ ops >= 2
  /\ InitiallyEnabled /\ emitterEnabled
  /\ eventsEnabled = "null" /\ selectionInformation = <<"null">>
====
